---- MODULE Spec2Model ----
(***************************************************************************)
(* export_json_graph of aisafety_pipeline/export_graph.py: the neighbor    *)
(* lists, the per-cluster spanning trees, the edge merge, the layout       *)
(* fallback chain, the declutter pass and the final write.                 *)
(*                                                                         *)
(* Units.  Every stored embedding has the same length, so a similarity     *)
(* X[i] @ X[j] is the integer dot product of the two model vectors counted *)
(* in units of 1/One; min_sim is counted in the same units.                *)
(***************************************************************************)
EXTENDS Integers, Sequences, FiniteSets, TLC

\* Bounds of the model.
MaxN == 3       \* rows of the edge pipeline
MaxK == 2       \* top_k
MaxM == 4       \* rows when the spanning trees are checked on their own

MaxPts == 3     \* points when the declutter pass is checked on its own
MaxR == 2       \* rows when the export is run twice
MaxPages == 2   \* pages the OAI server holds for one set
MaxPapers == 3  \* rows of the table papers

\* 1.0 in similarity units (the squared length of every model vector).
One == 9

\* 1.0 in coordinate units: a normalized coordinate is counted in millionths.
Scale == 1000000

\* r_min = 0.01 and the guard d2 > 1e-12 of _spread, in coordinate units.
RMin == 10000
D2Min == 1

\* canvas_w, canvas_h, canvas_pad
canvas_w == 1000
canvas_h == 700
canvas_pad == 24

VARIABLES
    pc,                 \* stage of export_json_graph
    err,                \* the exception that ended the export, or "none"
    db_cids,            \* the rows of the papers query: row -> kmeans_cluster
    db_vecs,            \* vec_by_id: row -> embedding, for the rows that have one
    N,                  \* X.shape[0]
    cluster_ids,        \* row -> papers[row]["cid"]
    X,                  \* row -> embedding
    top_k, min_sim, same_cluster_only, add_cluster_mst,
    include_coords, coords_method, compact,
    neigh_pairs,        \* row -> list of <<j, sim>>
    mst_edges,          \* list of <<u, v, sim>>
    seen,               \* set of <<a, b>>
    edge_list,          \* list of <<a, b, sim>>
    method_req, method_used,
    coords_arr,         \* [src, pts]: the back-end that returned the array, and it
    norm,               \* the normalized points (line 316)
    placed,             \* the points handed to the canvas mapping (norm at line 349)
    xs, ys,             \* canvas coordinates, <<>> for None
    layout_method_used,
    out_file,           \* <<>> while out_path is untouched, <<payload>> once written
    run,                \* which call of export_json_graph this is
    prev_file,          \* what the call before this one wrote
    prev_mst,           \* the mst_edges of the call before this one
    memo,               \* what each seeded or input-determined library call returned
    \* harvest_arxiv_oai_to_sqlite_raw (oai.py)
    hv_pc,              \* where the harvest is
    hv_err,             \* what made the harvest raise, or "none"
    oai_server,         \* set -> the records of its pages, one per page
    papers_raw,         \* the committed rows of papers_raw: id -> version
    pending,            \* the rows written in the open transaction
    state_file,         \* the content of the state file
    oset,               \* the position in OAI_SETS
    token,              \* the resumption token: the last page read, 0 for None
    fetch_log,          \* the outcomes of the requests of the current _oai_fetch
    fetched,            \* the <<set, page>> _oai_fetch has returned, in order
    \* ensure_embeddings_for_candidates (embeddings.py)
    em_pc,
    papers,             \* the ids of the rows of papers
    emb_table,          \* embeddings: paper_id -> the paper whose text was encoded
    missing,            \* the ids without an embedding, in the order of the first query
    texts,              \* the papers whose (title, summary) the second query returned
    embs                \* the encoded texts, in the order of texts

db      == <<db_cids, db_vecs>>
loaded  == <<N, cluster_ids, X>>
config  == <<top_k, min_sim, same_cluster_only, add_cluster_mst,
             include_coords, coords_method, compact>>
edgevars == <<neigh_pairs, mst_edges, seen, edge_list>>
layoutvars == <<method_req, method_used, coords_arr, norm, placed, xs, ys,
             layout_method_used>>

history == <<run, prev_file, prev_mst, memo>>

harvest == <<hv_pc, hv_err, oai_server, papers_raw, pending, state_file, oset,
             token, fetch_log, fetched>>
embed   == <<em_pc, papers, emb_table, missing, texts, embs>>
export  == <<pc, err, db, loaded, config, edgevars, layoutvars, out_file, history>>

vars == <<export, harvest, embed>>

----------------------------------------------------------------------------
\* Inputs

Vecs == { <<3, 0, 0>>, <<2, 2, 1>>, <<0, 0, 3>> }
ClusterIds == {0, 1}
MinSims == {4, 7}

Rows == 0 .. (N - 1)

\* A library call whose result is fixed by its arguments and its seed
\* (np.argpartition and np.argsort on one build, spring_layout(seed=fr_seed),
\* UMAP(random_state=...), PCA(random_state=...), an import): called again
\* with the same arguments it returns what it returned before.
Recall(call, outcome) ==
    IF call \in DOMAIN memo
    THEN outcome = memo[call] /\ memo' = memo
    ELSE memo' = memo @@ (call :> outcome)

Dot(u, v) == u[1] * v[1] + u[2] * v[2] + u[3] * v[3]

\* float(X[i] @ X[j])
Sim(i, j) == Dot(X[i], X[j])

\* -np.inf: below every similarity and every min_sim
NegInf == 0 - (One * One)

MinOf(S) == CHOOSE m \in S : \A x \in S : m <= x

RECURSIVE SeqOfSet(_)
SeqOfSet(S) ==
    IF S = {} THEN <<>>
    ELSE LET m == MinOf(S) IN <<m>> \o SeqOfSet(S \ {m})

RangeOf(s) == { s[p] : p \in 1 .. Len(s) }

\* The nodes reachable from the set 'from' over the undirected pairs <<a, b>>.
RECURSIVE Component(_, _)
Component(from, pairs) ==
    LET more == { n \in UNION { {e[1], e[2]} : e \in pairs } :
                    \E e \in pairs : \/ e[1] \in from /\ e[2] = n
                                     \/ e[2] \in from /\ e[1] = n }
    IN  IF more \subseteq from THEN from ELSE Component(from \cup more, pairs)

Connected(nodes, pairs) ==
    nodes = {} \/ nodes \subseteq Component({MinOf(nodes)}, pairs)

PairsOf(edges) == { <<edges[p][1], edges[p][2]>> : p \in 1 .. Len(edges) }

\* rows ORDER BY cid ASC
SortedByCid(f, n) == \A i, j \in 0 .. (n - 1) : i < j => f[i] <= f[j]

----------------------------------------------------------------------------
\* 1) - 4) Load the rows and their embeddings

DbRows == DOMAIN db_cids

\* missing = [pid for pid in ids if pid not in vec_by_id]
Missing == DbRows \ DOMAIN db_vecs

\* Mutant of Load: the output file is opened for writing before the checks.
LoadOpensFirst ==
    /\ pc = "load"
    /\ out_file' = <<"">>
    /\ IF DbRows = {}
       THEN pc' = "error" /\ err' = "no rows" /\ UNCHANGED loaded
       ELSE IF Missing # {}
       THEN pc' = "error" /\ err' = "missing embeddings" /\ UNCHANGED loaded
       ELSE /\ N' = Cardinality(DbRows)
            /\ cluster_ids' = db_cids
            /\ X' = db_vecs
            /\ pc' = "neighbors" /\ UNCHANGED err
    /\ UNCHANGED <<harvest, embed, history, db, config, edgevars, layoutvars>>

Load ==
    /\ pc = "load"
    /\ \/ /\ DbRows = {}
          /\ pc' = "error" /\ err' = "no rows"
          /\ UNCHANGED loaded
       \/ /\ DbRows # {} /\ Missing # {}
          /\ pc' = "error" /\ err' = "missing embeddings"
          /\ UNCHANGED loaded
       \/ /\ DbRows # {} /\ Missing = {}
          /\ N' = Cardinality(DbRows)
          /\ cluster_ids' = db_cids
          /\ X' = db_vecs
          /\ pc' = "neighbors" /\ UNCHANGED err
    /\ UNCHANGED <<harvest, embed, history, db, config, edgevars, layoutvars, out_file>>

----------------------------------------------------------------------------
\* 5) Neighbors

\* cluster_to_indices[cid]: the rows of a cluster, in row order
ClusterIndices(cid) == SeqOfSet({ r \in Rows : cluster_ids[r] = cid })

\* The k_eff entries argpartition selects, re-sorted by argsort(-sims).
\* NumPy fixes neither which of several equal values are selected nor their
\* order; pref is the order in which equal values are preferred.
\* Mutant of TopIdx: argpartition(sims, k_eff)[:k_eff], the k_eff smallest.
TopIdxSmallest(cand, sims, k_eff, pref) ==
    LET ranked == SortSeq(cand, LAMBDA a, b :
                      \/ sims[a] < sims[b]
                      \/ sims[a] = sims[b] /\ pref[a] < pref[b])
        top    == SubSeq(ranked, 1, k_eff)
    IN  SortSeq(top, LAMBDA a, b :
                      \/ sims[a] > sims[b]
                      \/ sims[a] = sims[b] /\ pref[a] < pref[b])

\* Mutant of TopIdx: the selected entries are not re-sorted.
TopIdxUnsorted(cand, sims, k_eff, pref) ==
    LET ranked == SortSeq(cand, LAMBDA a, b :
                      \/ sims[a] > sims[b]
                      \/ sims[a] = sims[b] /\ pref[a] < pref[b])
        top    == RangeOf(SubSeq(ranked, 1, k_eff))
    IN  SelectSeq(cand, LAMBDA a : a \in top)

TopIdx(cand, sims, k_eff, pref) ==
    LET ranked == SortSeq(cand, LAMBDA a, b :
                      \/ sims[a] > sims[b]
                      \/ sims[a] = sims[b] /\ pref[a] < pref[b])
    IN  SubSeq(ranked, 1, k_eff)

\* Mutant of KeepAboveFloor: the floor test is dropped.
KeepAboveFloorPad(top, sims) ==
    [p \in 1 .. Len(top) |-> <<top[p], sims[top[p]]>>]

\* the loop body "if sim < min_sim: continue; neigh_pairs[i].append((j, sim))"
KeepAboveFloor(top, sims) ==
    SelectSeq([p \in 1 .. Len(top) |-> <<top[p], sims[top[p]]>>],
              LAMBDA e : ~(e[2] < min_sim))

\* Mutant of NeighRowCluster: the row's own entry is not masked.
NeighRowClusterNoMask(i, pref) ==
    LET indices == ClusterIndices(cluster_ids[i])
        sims    == [j \in RangeOf(indices) |-> Sim(i, j)]
        k_eff   == IF top_k < Len(indices) THEN top_k ELSE Len(indices)
    IN  IF k_eff > 0
        THEN KeepAboveFloor(TopIdx(indices, sims, k_eff, pref), sims)
        ELSE <<>>

\* Mutant of NeighRowCluster: the candidates are all rows.
NeighRowClusterAllRows(i, pref) ==
    LET sims_row == [j \in Rows |-> IF j = i THEN NegInf ELSE Sim(i, j)]
        k_eff    == IF top_k < N - 1 THEN top_k ELSE N - 1
    IN  IF k_eff > 0
        THEN KeepAboveFloor(TopIdx(SeqOfSet(Rows), sims_row, k_eff, pref), sims_row)
        ELSE <<>>

\* one row of the same_cluster_only branch
NeighRowCluster(i, pref) ==
    LET indices == ClusterIndices(cluster_ids[i])
        sims    == [j \in RangeOf(indices) |-> IF j = i THEN NegInf ELSE Sim(i, j)]
        k_eff   == IF top_k < Len(indices) THEN top_k ELSE Len(indices)
    IN  IF k_eff > 0
        THEN KeepAboveFloor(TopIdx(indices, sims, k_eff, pref), sims)
        ELSE <<>>

\* one row of the global branch, against all rows at once
NeighRowGlobal(i, pref) ==
    LET sims_row == [j \in Rows |-> IF j = i THEN NegInf ELSE Sim(i, j)]
        k_eff    == IF top_k < N - 1 THEN top_k ELSE N - 1
    IN  IF k_eff > 0
        THEN KeepAboveFloor(TopIdx(SeqOfSet(Rows), sims_row, k_eff, pref), sims_row)
        ELSE <<>>

\* BATCH = 1024 if N > 20000 else 4096
BATCH == IF N > 20000 THEN 1024 ELSE 4096

\* range(0, N, batch)
BatchStarts(batch) == [p \in 1 .. ((N + batch - 1) \div batch) |-> (p - 1) * batch]

\* the <<start, row>> of "for row in range(stop - start)" for one batch
BlockVisits(start, batch) ==
    LET stop == IF start + batch < N THEN start + batch ELSE N
    IN  [q \in 1 .. (stop - start) |-> <<start, q - 1>>]

\* all <<start, row>> of the two nested loops, in order
RECURSIVE VisitsFrom(_, _)
VisitsFrom(starts, batch) ==
    IF starts = <<>> THEN <<>>
    ELSE BlockVisits(Head(starts), batch) \o VisitsFrom(Tail(starts), batch)

Visits(batch) == VisitsFrom(BatchStarts(batch), batch)

\* Mutant of RowAt: the row within the block is taken for the row.
RowAtNoOffset(v) == v[2]

\* i = start + row
RowAt(v) == v[1] + v[2]

\* sims_block[row], the product of row start + row of X with X.T
BlockRow(v) == [j \in Rows |-> Dot(X[v[1] + v[2]], X[j])]

\* the body of "for row in range(stop - start)", for each visit in turn
RECURSIVE VisitAll(_, _, _)
VisitAll(np, visits, pref) ==
    IF visits = <<>> THEN np
    ELSE LET v        == Head(visits)
             i        == RowAt(v)
             sims_row == [j \in Rows |-> IF j = i THEN NegInf ELSE BlockRow(v)[j]]
             k_eff    == IF top_k < N - 1 THEN top_k ELSE N - 1
             found    == IF k_eff > 0
                         THEN KeepAboveFloor(
                                  TopIdx(SeqOfSet(Rows), sims_row, k_eff, pref), sims_row)
                         ELSE <<>>
         IN  VisitAll([np EXCEPT ![i] = @ \o found], Tail(visits), pref)

\* the global branch, in batches of the given size
NeighGlobalBatched(batch, pref) ==
    VisitAll([i \in Rows |-> <<>>], Visits(batch), pref)

Neighbors ==
    /\ pc = "neighbors"
    /\ IF N > 1
       THEN \E pref \in Permutations(Rows) :
                neigh_pairs' = IF same_cluster_only
                               THEN [i \in Rows |-> NeighRowCluster(i, pref)]
                               ELSE NeighGlobalBatched(BATCH, pref)
       ELSE neigh_pairs' = [i \in Rows |-> <<>>]
    /\ Recall("argsort", neigh_pairs')
    /\ pc' = "mst"
    /\ UNCHANGED <<harvest, embed, run, prev_file, prev_mst, err, db, loaded, config, mst_edges, seen, edge_list, layoutvars, out_file>>

----------------------------------------------------------------------------
\* 6) Per-cluster spanning tree

\* heap order of the tuples (1.0 - sim, u, v, sim)
HeapLeq(e, f) ==
    \/ e[1] < f[1]
    \/ e[1] = f[1] /\ e[2] < f[2]
    \/ e[1] = f[1] /\ e[2] = f[2] /\ e[3] <= f[3]

\* heapq.heappop
HeapMin(edges) == CHOOSE e \in edges : \A f \in edges : HeapLeq(e, f)

\* Mutant of HeapEntry: the heap is keyed by the similarity itself.
HeapEntryBySim(u, v) == <<Sim(u, v), u, v, Sim(u, v)>>

HeapEntry(u, v) == <<One - Sim(u, v), u, v, Sim(u, v)>>

\* Mutant of PrimLoop: a popped edge is taken without the "v in in_tree" test.
RECURSIVE PrimLoopNoSkip(_, _, _, _)
PrimLoopNoSkip(indices, in_tree, edges, mst) ==
    IF Cardinality(in_tree) < Len(indices) /\ edges # {}
    THEN LET e     == HeapMin(edges)
             v     == e[3]
             tree2 == in_tree \cup {v}
         IN  PrimLoopNoSkip(indices, tree2,
                 (edges \ {e}) \cup { HeapEntry(v, w) : w \in RangeOf(indices) \ tree2 },
                 Append(mst, <<e[2], v, e[4]>>))
    ELSE mst

\* the while loop of _cluster_mst
RECURSIVE PrimLoop(_, _, _, _)
PrimLoop(indices, in_tree, edges, mst) ==
    IF Cardinality(in_tree) < Len(indices) /\ edges # {}
    THEN LET e    == HeapMin(edges)
             rest == edges \ {e}
             v    == e[3]
         IN  IF v \in in_tree
             THEN PrimLoop(indices, in_tree, rest, mst)
             ELSE LET tree2 == in_tree \cup {v}
                  IN  PrimLoop(indices, tree2,
                               rest \cup { HeapEntry(v, w) : w \in RangeOf(indices) \ tree2 },
                               Append(mst, <<e[2], v, e[4]>>))
    ELSE mst

_cluster_mst(indices) ==
    IF Len(indices) <= 1 THEN <<>>
    ELSE PrimLoop(indices, {indices[1]},
                  { HeapEntry(indices[1], indices[p]) : p \in 2 .. Len(indices) },
                  <<>>)

\* by_cluster.values(): the clusters in the order their first row appears
ClusterOrder ==
    LET firsts == { MinOf({ r \in Rows : cluster_ids[r] = c }) :
                        c \in { cluster_ids[r] : r \in Rows } }
        fs     == SeqOfSet(firsts)
    IN  [p \in 1 .. Len(fs) |-> cluster_ids[fs[p]]]

RECURSIVE ExtendMst(_, _)
ExtendMst(cids, acc) ==
    IF cids = <<>> THEN acc
    ELSE ExtendMst(Tail(cids), acc \o _cluster_mst(ClusterIndices(Head(cids))))

\* Mutant of Mst: without same_cluster_only the rows are taken as one cluster.
MstOverAllRows ==
    /\ pc = "mst"
    /\ mst_edges' = IF add_cluster_mst
                     THEN IF same_cluster_only THEN ExtendMst(ClusterOrder, <<>>)
                                               ELSE _cluster_mst(SeqOfSet(Rows))
                     ELSE <<>>
    /\ pc' = "dedup"
    /\ UNCHANGED <<harvest, embed, history, err, db, loaded, config, neigh_pairs, seen, edge_list, layoutvars, out_file>>

Mst ==
    /\ pc = "mst"
    /\ mst_edges' = IF add_cluster_mst THEN ExtendMst(ClusterOrder, <<>>) ELSE <<>>
    /\ pc' = "dedup"
    /\ UNCHANGED <<harvest, embed, history, err, db, loaded, config, neigh_pairs, seen, edge_list, layoutvars, out_file>>

----------------------------------------------------------------------------
\* 7) Dedup edges

\* Mutant of _emit_edge: the key is the pair as proposed, not the canonical one.
_emit_edge_as_given(st, u, v, sim) ==
    IF <<u, v>> \in st.seen THEN st
    ELSE [seen |-> st.seen \cup {<<u, v>>},
          edge_list |-> Append(st.edge_list, <<u, v, sim>>)]

\* Mutant of _emit_edge: a pair seen again replaces the entry it had.
_emit_edge_last_wins(st, u, v, sim) ==
    LET a == IF u < v THEN u ELSE v
        b == IF u < v THEN v ELSE u
    IN  [seen |-> st.seen \cup {<<a, b>>},
         edge_list |-> Append(SelectSeq(st.edge_list,
                                        LAMBDA e : <<e[1], e[2]>> # <<a, b>>),
                              <<a, b, sim>>)]

\* _emit_edge, on the pair st = [seen, edge_list]
_emit_edge(st, u, v, sim) ==
    LET a   == IF u < v THEN u ELSE v
        b   == IF u < v THEN v ELSE u
        key == <<a, b>>
    IN  IF key \in st.seen THEN st
        ELSE [seen |-> st.seen \cup {key},
              edge_list |-> Append(st.edge_list, <<a, b, sim>>)]

RECURSIVE EmitRow(_, _, _)
EmitRow(st, i, lst) ==
    IF lst = <<>> THEN st
    ELSE EmitRow(_emit_edge(st, i, Head(lst)[1], Head(lst)[2]), i, Tail(lst))

\* for i, lst in enumerate(neigh_pairs): ...
RECURSIVE EmitNeighbors(_, _)
EmitNeighbors(st, i) ==
    IF i >= N THEN st
    ELSE EmitNeighbors(EmitRow(st, i, neigh_pairs[i]), i + 1)

\* the filter "if sim >= min_sim * 0.5"
\* Mutant of MstKept: every spanning-tree edge is kept.
MstKeptAlways(sim) == TRUE

MstKept(sim) == 2 * sim >= min_sim

\* for (u, v, sim) in mst_edges: ...
RECURSIVE EmitMst(_, _)
EmitMst(st, lst) ==
    IF lst = <<>> THEN st
    ELSE LET e == Head(lst)
         IN  EmitMst(IF MstKept(e[3]) THEN _emit_edge(st, e[1], e[2], e[3]) ELSE st,
                     Tail(lst))

MergeNeighbors ==
    /\ pc = "dedup"
    /\ LET st == EmitNeighbors([seen |-> {}, edge_list |-> <<>>], 0)
       IN  /\ seen' = st.seen
           /\ edge_list' = st.edge_list
    /\ pc' = "dedup_mst"
    /\ UNCHANGED <<harvest, embed, history, err, db, loaded, config, neigh_pairs, mst_edges, layoutvars, out_file>>

MergeMst ==
    /\ pc = "dedup_mst"
    /\ LET st == EmitMst([seen |-> seen, edge_list |-> edge_list], mst_edges)
       IN  /\ seen' = st.seen
           /\ edge_list' = st.edge_list
    /\ pc' = "coords"
    /\ UNCHANGED <<harvest, embed, history, err, db, loaded, config, neigh_pairs, mst_edges, layoutvars, out_file>>

----------------------------------------------------------------------------
\* 8) Coords: the requested back-end and its fallbacks

NoArray == [src |-> "none", pts |-> <<>>]

Methods == {"fa2", "fr", "umap", "pca", "none", "FR", "tsne"}

\* coords_method.lower()
Lower(m) == IF m = "FR" THEN "fr" ELSE m

\* the positions a back-end may return
RawPts == { <<0, 0>>, <<1, 0>>, <<200, 0>>, <<200, 200>> }

Returned(by, pts) == [src |-> by, pts |-> pts]

\* Mutant of WantsCoords: a single row is laid out too.
WantsCoordsAnyN ==
    include_coords /\ Lower(coords_method) # "none"

WantsCoords == include_coords /\ N >= 2 /\ Lower(coords_method) # "none"

CoordsSkip ==
    /\ pc = "coords" /\ ~WantsCoords
    /\ layout_method_used' = "none"
    /\ pc' = "payload"
    /\ UNCHANGED <<harvest, embed, history, err, db, loaded, config, edgevars, method_req, method_used,
                   coords_arr, norm, placed, xs, ys, out_file>>

\* lines 249-258: the dispatch on method_req, with the import of networkx
CoordsBegin ==
    /\ pc = "coords" /\ WantsCoords
    /\ method_req' = Lower(coords_method)
    /\ coords_arr' = NoArray
    /\ method_used' = "none"
    /\ \/ /\ Lower(coords_method) \in {"fa2", "fr"}
          /\ pc' = Lower(coords_method) /\ UNCHANGED err
       \/ /\ Lower(coords_method) \in {"fa2", "fr"}
          /\ pc' = "error" /\ err' = "networkx"
       \/ /\ Lower(coords_method) = "umap"
          /\ pc' = "umap" /\ UNCHANGED err
       \/ /\ Lower(coords_method) \notin {"fa2", "fr", "umap"}
          /\ pc' = "pca" /\ UNCHANGED err
    /\ Recall("networkx", pc')
    /\ UNCHANGED <<harvest, embed, run, prev_file, prev_mst, db, loaded, config, edgevars, norm, placed, xs, ys,
                   layout_method_used, out_file>>

\* lines 265-284: forceatlas2_networkx_layout(G, pos=None, ...) takes no seed,
\* so only whether fa2 can be used is the same from one call to the next
TryFa2 ==
    /\ pc = "fa2"
    /\ \/ \E pts \in [Rows -> RawPts] :
              /\ coords_arr' = Returned("fa2", pts)
              /\ method_used' = "fa2"
              /\ UNCHANGED method_req
       \/ /\ method_req' = "fr"
          /\ UNCHANGED <<coords_arr, method_used>>
    /\ Recall("fa2", method_req')
    /\ pc' = "fr"
    /\ UNCHANGED <<harvest, embed, run, prev_file, prev_mst, err, db, loaded, config, edgevars, norm, placed, xs, ys,
                   layout_method_used, out_file>>

\* lines 286-292: spring_layout is not guarded
TryFr ==
    /\ pc = "fr"
    /\ \/ /\ method_req = "fr" /\ coords_arr = NoArray
          /\ \E pts \in [Rows -> RawPts] : coords_arr' = Returned("fr", pts)
          /\ method_used' = "fr"
          /\ pc' = "pca" /\ UNCHANGED err
          /\ Recall("fr", <<pc', coords_arr'>>)
       \/ /\ method_req = "fr" /\ coords_arr = NoArray
          /\ pc' = "error" /\ err' = "spring_layout"
          /\ UNCHANGED <<coords_arr, method_used>>
          /\ Recall("fr", <<pc', coords_arr'>>)
       \/ /\ ~(method_req = "fr" /\ coords_arr = NoArray)
          /\ pc' = "pca"
          /\ UNCHANGED <<err, coords_arr, method_used, memo>>
    /\ UNCHANGED <<harvest, embed, run, prev_file, prev_mst, db, loaded, config, edgevars, method_req, norm, placed, xs, ys,
                   layout_method_used, out_file>>

\* lines 294-305
TryUmap ==
    /\ pc = "umap"
    /\ \/ \E pts \in [Rows -> RawPts] :
              /\ coords_arr' = Returned("umap", pts)
              /\ method_used' = "umap"
              /\ UNCHANGED method_req
       \/ /\ method_req' = "pca"
          /\ UNCHANGED <<coords_arr, method_used>>
    /\ Recall("umap", <<method_req', coords_arr'>>)
    /\ pc' = "pca"
    /\ UNCHANGED <<harvest, embed, run, prev_file, prev_mst, err, db, loaded, config, edgevars, norm, placed, xs, ys,
                   layout_method_used, out_file>>

\* lines 307-311: the PCA is not guarded
TryPca ==
    /\ pc = "pca"
    /\ \/ /\ coords_arr = NoArray /\ method_req = "pca"
          /\ \E pts \in [Rows -> RawPts] : coords_arr' = Returned("pca", pts)
          /\ method_used' = "pca"
          /\ pc' = "normalize" /\ UNCHANGED err
          /\ Recall("pca", <<pc', coords_arr'>>)
       \/ /\ coords_arr = NoArray /\ method_req = "pca"
          /\ pc' = "error" /\ err' = "pca"
          /\ UNCHANGED <<coords_arr, method_used>>
          /\ Recall("pca", <<pc', coords_arr'>>)
       \/ /\ ~(coords_arr = NoArray /\ method_req = "pca")
          /\ pc' = "normalize"
          /\ UNCHANGED <<err, coords_arr, method_used, memo>>
    /\ UNCHANGED <<harvest, embed, run, prev_file, prev_mst, db, loaded, config, edgevars, method_req, norm, placed, xs, ys,
                   layout_method_used, out_file>>

----------------------------------------------------------------------------
\* Normalization, declutter and canvas mapping (lines 313-351)

MaxOf(S) == CHOOSE m \in S : \A x \in S : m >= x

\* (coords_arr - mins) / np.maximum(maxs - mins, 1e-9), one axis
NormAxis(pts, ax, i) ==
    LET vals == { pts[r][ax] : r \in DOMAIN pts }
        rng  == MaxOf(vals) - MinOf(vals)
    IN  IF rng = 0 THEN 0
        ELSE ((pts[i][ax] - MinOf(vals)) * Scale) \div rng

Normalized(pts) == [i \in DOMAIN pts |-> <<NormAxis(pts, 1, i), NormAxis(pts, 2, i)>>]

\* np.sqrt, to the coordinate unit
RECURSIVE SqrtSearch(_, _, _)
SqrtSearch(n, lo, hi) ==
    IF lo >= hi THEN lo
    ELSE LET mid == (lo + hi + 1) \div 2
         IN  IF mid * mid <= n THEN SqrtSearch(n, mid, hi)
                               ELSE SqrtSearch(n, lo, mid - 1)

ISqrt(n) == SqrtSearch(n, 0, RMin)

\* a / b to the nearest coordinate unit, b > 0
DivRound(a, b) == (2 * a + b) \div (2 * b)

\* int(np.floor(x / cell)), cell = r_min
Cell(v) == v \div RMin

CellOf(P, i) == <<Cell(P[i][1]), Cell(P[i][2])>>

\* the first point of the bucket of point i: buckets is filled in row order
BucketFirst(P, i) == MinOf({ j \in DOMAIN P : CellOf(P, j) = CellOf(P, i) })

\* the order in which "for (gx, gy), idxs in buckets.items(): for ii in idxs"
\* reaches the points
VisitOrder(P) ==
    SortSeq(SeqOfSet(DOMAIN P), LAMBDA a, b :
        \/ BucketFirst(P, a) < BucketFirst(P, b)
        \/ BucketFirst(P, a) = BucketFirst(P, b) /\ a < b)

\* hot: the points of the 3 x 3 cells around the bucket of ii
Hot(P0, ii) ==
    { jj \in DOMAIN P0 :
        /\ CellOf(P0, jj)[1] - CellOf(P0, ii)[1] \in {0 - 1, 0, 1}
        /\ CellOf(P0, jj)[2] - CellOf(P0, ii)[2] \in {0 - 1, 0, 1} }

\* Mutant of PushAll: only the second point of a pair is pushed.
RECURSIVE PushAllOneSided(_, _, _, _, _)
PushAllOneSided(P, ii, xi, yi, js) ==
    IF js = <<>> THEN P
    ELSE LET jj == Head(js)
             dx == xi - P[jj][1]
             dy == yi - P[jj][2]
             d2 == dx * dx + dy * dy
         IN  IF jj > ii /\ d2 < RMin * RMin /\ d2 > D2Min
             THEN LET d  == ISqrt(d2)
                      px == DivRound(dx * (RMin - d), 2 * d)
                      py == DivRound(dy * (RMin - d), 2 * d)
                  IN  PushAllOneSided([P EXCEPT ![jj] = <<@[1] - px, @[2] - py>>],
                              ii, xi, yi, Tail(js))
             ELSE PushAllOneSided(P, ii, xi, yi, Tail(js))

\* the loop "for jj in hot" for one ii; xi, yi were read before the loop
RECURSIVE PushAll(_, _, _, _, _)
PushAll(P, ii, xi, yi, js) ==
    IF js = <<>> THEN P
    ELSE LET jj == Head(js)
             dx == xi - P[jj][1]
             dy == yi - P[jj][2]
             d2 == dx * dx + dy * dy
         IN  IF jj > ii /\ d2 < RMin * RMin /\ d2 > D2Min
             THEN LET d  == ISqrt(d2)
                      px == DivRound(dx * (RMin - d), 2 * d)
                      py == DivRound(dy * (RMin - d), 2 * d)
                  IN  PushAll([P EXCEPT ![ii] = <<@[1] + px, @[2] + py>>,
                                        ![jj] = <<@[1] - px, @[2] - py>>],
                              ii, xi, yi, Tail(js))
             ELSE PushAll(P, ii, xi, yi, Tail(js))

RECURSIVE SpreadVisit(_, _, _)
SpreadVisit(P, P0, order) ==
    IF order = <<>> THEN P
    ELSE LET ii == Head(order)
         IN  SpreadVisit(PushAll(P, ii, P[ii][1], P[ii][2], SeqOfSet(Hot(P0, ii))),
                         P0, Tail(order))

\* _spread(norm, r_min=0.01, iters=1)
_spread(points) == SpreadVisit(points, points, VisitOrder(points))

\* astype(np.int32): toward zero
TruncDiv(a, b) == IF a >= 0 THEN a \div b ELSE 0 - ((0 - a) \div b)

CanvasX(v) == TruncDiv(canvas_pad * Scale + v * (canvas_w - 2 * canvas_pad), Scale)
CanvasY(v) == TruncDiv(canvas_pad * Scale + v * (canvas_h - 2 * canvas_pad), Scale)

\* Mutant of LayoutMethodUsed: the requested name is recorded.
LayoutMethodRequested == Lower(coords_method)

\* line 351: layout_method_used = method_used
LayoutMethodUsed == method_used

Normalize ==
    /\ pc = "normalize"
    /\ \/ /\ coords_arr # NoArray
          /\ norm' = Normalized(coords_arr.pts)
          /\ pc' = "declutter"
          /\ UNCHANGED layout_method_used
       \/ /\ coords_arr = NoArray
          /\ layout_method_used' = LayoutMethodUsed
          /\ pc' = "payload"
          /\ UNCHANGED norm
    /\ UNCHANGED <<harvest, embed, history, err, db, loaded, config, edgevars, method_req, method_used,
                   coords_arr, placed, xs, ys, out_file>>

\* Mutant of Declutter: the declutter pass is run for fa2 only.
DeclutterFa2Only ==
    /\ pc = "declutter"
    /\ placed' = IF method_used \in {"fa2"} THEN _spread(norm) ELSE norm
    /\ pc' = "canvas"
    /\ UNCHANGED <<harvest, embed, history, err, db, loaded, config, edgevars, method_req, method_used,
                   coords_arr, norm, xs, ys, layout_method_used, out_file>>

\* lines 346-347
Declutter ==
    /\ pc = "declutter"
    /\ placed' = IF method_used \in {"fa2", "fr"} THEN _spread(norm) ELSE norm
    /\ pc' = "canvas"
    /\ UNCHANGED <<harvest, embed, history, err, db, loaded, config, edgevars, method_req, method_used,
                   coords_arr, norm, xs, ys, layout_method_used, out_file>>

\* lines 349-351
Canvas ==
    /\ pc = "canvas"
    /\ xs' = [p \in 1 .. N |-> CanvasX(placed[p - 1][1])]
    /\ ys' = [p \in 1 .. N |-> CanvasY(placed[p - 1][2])]
    /\ layout_method_used' = LayoutMethodUsed
    /\ pc' = "payload"
    /\ UNCHANGED <<harvest, embed, history, err, db, loaded, config, edgevars, method_req, method_used,
                   coords_arr, norm, placed, out_file>>

----------------------------------------------------------------------------
\* 9) - 11) Payload and write

\* ids[i]: the external id of row i, a key that is no row index
Aid(i) == 0 - (i + 1)

\* round(float(w), 6), in millionths
Round6(sim) == DivRound(sim * 1000000, One)

\* Mutant of Node: the verbose branch forgets the coordinates.
NodeXYCompactOnly(i) ==
    LET base == IF compact THEN [id |-> i, aid |-> Aid(i), cid |-> cluster_ids[i]]
                           ELSE [id |-> Aid(i), cid |-> cluster_ids[i]]
    IN  IF xs # <<>> /\ ys # <<>> /\ compact
        THEN [k \in DOMAIN base \cup {"x", "y"} |->
                 IF k = "x" THEN xs[i + 1] ELSE IF k = "y" THEN ys[i + 1] ELSE base[k]]
        ELSE base

Node(i) ==
    LET base == IF compact THEN [id |-> i, aid |-> Aid(i), cid |-> cluster_ids[i]]
                           ELSE [id |-> Aid(i), cid |-> cluster_ids[i]]
    IN  IF xs # <<>> /\ ys # <<>>
        THEN [k \in DOMAIN base \cup {"x", "y"} |->
                 IF k = "x" THEN xs[i + 1] ELSE IF k = "y" THEN ys[i + 1] ELSE base[k]]
        ELSE base

\* Mutant of Link: the verbose links name their endpoints by row index.
LinkByRow(e) ==
    IF compact THEN [s |-> e[1], t |-> e[2], w |-> Round6(e[3])]
               ELSE [source |-> e[1], target |-> e[2], weight |-> Round6(e[3])]

Link(e) ==
    IF compact THEN [s |-> e[1], t |-> e[2], w |-> Round6(e[3])]
               ELSE [source |-> Aid(e[1]), target |-> Aid(e[2]), weight |-> Round6(e[3])]

\* Mutant of Clusters: one entry per cluster id of the clustering, used or not.
ClustersOfAllIds ==
    [c \in ClusterIds |->
        [size |-> Cardinality({ r \in Rows : cluster_ids[r] = c })]]

\* 11) clusters: for cid in sorted(set(cluster_ids)), size = cluster_counts[cid]
Clusters ==
    [c \in { cluster_ids[r] : r \in Rows } |->
        [size |-> Cardinality({ r \in Rows : cluster_ids[r] = c })]]

Payload ==
    [meta     |-> [neighbors |-> [top_k |-> top_k, min_sim |-> min_sim,
                                  same_cluster_only |-> same_cluster_only],
                   coords    |-> [included |-> xs # <<>>,
                                  method   |-> layout_method_used],
                   compact   |-> compact],
     clusters |-> Clusters,
     nodes    |-> [p \in 1 .. N |-> Node(p - 1)],
     links    |-> [p \in 1 .. Len(edge_list) |-> Link(edge_list[p])]]

\* lines 398-426
Write ==
    /\ pc = "payload"
    /\ out_file' = <<Payload>>
    /\ pc' = "done"
    /\ UNCHANGED <<harvest, embed, history, err, db, loaded, config, edgevars, layoutvars>>

\* export_json_graph is called again on the same database with the same
\* arguments: its locals start afresh, the file of the call before is on disk.
Rerun ==
    /\ pc = "done" /\ run = 1
    /\ run' = run + 1
    /\ prev_file' = out_file
    /\ prev_mst' = mst_edges
    /\ pc' = "load"
    /\ N' = 0 /\ cluster_ids' = <<>> /\ X' = <<>>
    /\ neigh_pairs' = <<>> /\ mst_edges' = <<>>
    /\ seen' = {} /\ edge_list' = <<>>
    /\ method_req' = "none" /\ method_used' = "none"
    /\ coords_arr' = NoArray
    /\ norm' = <<>> /\ placed' = <<>>
    /\ xs' = <<>> /\ ys' = <<>>
    /\ layout_method_used' = "none"
    /\ UNCHANGED <<harvest, embed, err, db, config, out_file, memo>>

----------------------------------------------------------------------------
\* harvest_arxiv_oai_to_sqlite_raw (oai.py)

\* config.py: OAI_SETS
OAI_SETS == <<"cs", "stat", "econ">>

\* for attempt in range(5)
Attempts == 5

\* requests.get returns a response with r.ok, returns one without, or raises
\* (a timeout after 60 s, a connection error)
Outcomes == {"ok", "status", "exception"}

\* the arXiv id of the record on page p of set s
RecId(s, p) == <<OAI_SETS[s], p>>

\* INSERT ... ON CONFLICT(id) DO UPDATE, in the open transaction
Upsert(tbl, id) ==
    [k \in DOMAIN tbl \cup {id} |-> IF k = id THEN "new" ELSE tbl[k]]

\* the rows of papers_raw once the open transaction is committed
Committed ==
    [k \in DOMAIN papers_raw \cup DOMAIN pending |->
        IF k \in DOMAIN pending THEN pending[k] ELSE papers_raw[k]]

\* lines 88-99: the dates, then cur.execute("BEGIN")
HarvestBegin ==
    /\ hv_pc = "begin"
    /\ pending' = <<>>
    /\ oset' = 1 /\ token' = 0
    /\ fetch_log' = <<>>
    /\ hv_pc' = "fetch"
    /\ UNCHANGED <<hv_err, oai_server, papers_raw, state_file, fetched, export, embed>>

\* _oai_fetch, one pass of "for attempt in range(5)"; after the last pass
\* r.raise_for_status() raises for the response that was not ok
Request ==
    /\ hv_pc = "fetch"
    /\ Len(fetch_log) < Attempts
    /\ \E outcome \in Outcomes :
           /\ fetch_log' = Append(fetch_log, outcome)
           /\ \/ /\ outcome = "ok"
                 /\ hv_pc' = "page"
                 /\ fetched' = Append(fetched, <<oset, token + 1>>)
                 /\ UNCHANGED hv_err
              \/ /\ outcome = "status"
                 /\ IF Len(fetch_log) + 1 < Attempts
                    THEN hv_pc' = "fetch" /\ UNCHANGED hv_err
                    ELSE hv_pc' = "rollback" /\ hv_err' = "fetch"
                 /\ UNCHANGED fetched
              \/ /\ outcome = "exception"
                 /\ hv_pc' = "rollback" /\ hv_err' = "fetch"
                 /\ UNCHANGED fetched
    /\ UNCHANGED <<oai_server, papers_raw, pending, state_file, oset, token,
                   export, embed>>

\* lines 41-44 and 101-102: the resumption token of the page just read, the
\* next page, the next set, or the end of the loops
NextPage ==
    LET page == token + 1
    IN  IF page < oai_server[oset]
        THEN /\ token' = page /\ hv_pc' = "fetch" /\ fetch_log' = <<>>
             /\ UNCHANGED oset
        ELSE IF oset < Len(OAI_SETS)
        THEN /\ oset' = oset + 1 /\ token' = 0
             /\ hv_pc' = "fetch" /\ fetch_log' = <<>>
        ELSE /\ hv_pc' = "commit" /\ token' = 0
             /\ UNCHANGED <<oset, fetch_log>>

\* lines 37-40 and 103-116: the page is parsed, its record is parsed and
\* inserted
Page ==
    /\ hv_pc = "page"
    /\ \/ /\ hv_pc' = "rollback" /\ hv_err' = "parse"
          /\ UNCHANGED <<pending, oset, token, fetch_log>>
       \/ /\ UNCHANGED <<pending, hv_err>>
          /\ NextPage
       \/ /\ pending' = Upsert(pending, RecId(oset, token + 1))
          /\ UNCHANGED hv_err
          /\ NextPage
       \/ /\ hv_pc' = "rollback" /\ hv_err' = "insert"
          /\ UNCHANGED <<pending, oset, token, fetch_log>>
    /\ UNCHANGED <<oai_server, papers_raw, state_file, fetched, export, embed>>

\* line 117
Commit ==
    /\ hv_pc = "commit"
    /\ \/ /\ papers_raw' = Committed
          /\ pending' = <<>>
          /\ hv_pc' = "state"
          /\ UNCHANGED hv_err
       \/ /\ hv_pc' = "rollback" /\ hv_err' = "commit"
          /\ UNCHANGED <<papers_raw, pending>>
    /\ UNCHANGED <<oai_server, state_file, oset, token, fetch_log, fetched,
                   export, embed>>

\* Mutant of Rollback: what was written before the failure is kept.
RollbackKeeps ==
    /\ hv_pc = "rollback"
    /\ papers_raw' = Committed
    /\ pending' = <<>>
    /\ hv_pc' = "raised"
    /\ UNCHANGED <<hv_err, oai_server, state_file, oset, token, fetch_log,
                   fetched, export, embed>>

\* lines 118-119: cur.execute("ROLLBACK"); raise
Rollback ==
    /\ hv_pc = "rollback"
    /\ pending' = <<>>
    /\ hv_pc' = "raised"
    /\ UNCHANGED <<hv_err, oai_server, papers_raw, state_file, oset, token,
                   fetch_log, fetched, export, embed>>

\* lines 121-123: Path(state_file).write_text(until_date)
WriteState ==
    /\ hv_pc = "state"
    /\ \/ /\ state_file' = "until"
          /\ hv_pc' = "done"
          /\ UNCHANGED hv_err
       \/ /\ hv_pc' = "raised" /\ hv_err' = "state_file"
          /\ UNCHANGED state_file
    /\ UNCHANGED <<oai_server, papers_raw, pending, oset, token, fetch_log,
                   fetched, export, embed>>

----------------------------------------------------------------------------
\* ensure_embeddings_for_candidates (embeddings.py)

\* the title and summary of a paper
Texts == {"a", "b"}

\* the rows of a SELECT without ORDER BY come in an order the database
\* chooses: every sequence that holds each element of S once
Orders(S) ==
    { q \in [1 .. Cardinality(S) -> S] :
        \A i, j \in 1 .. Cardinality(S) : i # j => q[i] # q[j] }

\* EmbeddingGenerator.encode, one text; upsert_embedding stores the vector
\* with the model name
encode(text) == [model |-> "specter2", of |-> text]

\* lines 103-109: the ids, the embeddings there are, the ids without one
EmbedStart ==
    /\ em_pc = "start"
    /\ \E ids \in Orders(DOMAIN papers) :
           LET have == DOMAIN emb_table
               idx  == { k \in DOMAIN ids : ids[k] \notin have }
               miss == [k \in 1 .. Cardinality(idx) |->
                          ids[CHOOSE j \in idx :
                                 Cardinality({ l \in idx : l < j }) = k - 1]]
           IN  /\ missing' = miss
               /\ em_pc' = IF ids = <<>> \/ miss = <<>> THEN "done" ELSE "query"
    /\ UNCHANGED <<papers, emb_table, texts, embs, export, harvest>>

\* lines 110-112: SELECT title, summary FROM papers WHERE id IN (missing)
EmbedQuery ==
    /\ em_pc = "query"
    /\ \E rows \in Orders({ missing[k] : k \in DOMAIN missing }) :
           texts' = [k \in DOMAIN rows |-> papers[rows[k]]]
    /\ em_pc' = "encode"
    /\ UNCHANGED <<papers, emb_table, missing, embs, export, harvest>>

\* line 114
EmbedEncode ==
    /\ em_pc = "encode"
    /\ embs' = [k \in DOMAIN texts |-> encode(texts[k])]
    /\ em_pc' = "store"
    /\ UNCHANGED <<papers, emb_table, missing, texts, export, harvest>>

\* lines 115-118: for pid, vec in zip(missing, embs): upsert_embedding
EmbedStore ==
    /\ em_pc = "store"
    /\ emb_table' =
           [id \in DOMAIN emb_table \cup { missing[k] : k \in DOMAIN missing } |->
               IF \E k \in DOMAIN missing : missing[k] = id
               THEN embs[CHOOSE k \in DOMAIN missing : missing[k] = id]
               ELSE emb_table[id]]
    /\ em_pc' = "done"
    /\ UNCHANGED <<papers, missing, texts, embs, export, harvest>>

----------------------------------------------------------------------------
\* The edge pipeline, from the stacked matrix X (line 149) to the edge list.

\* cmd_harvest is not run.
NoHarvest ==
    /\ hv_pc = "idle" /\ hv_err = "none"
    /\ oai_server = <<>> /\ papers_raw = <<>> /\ pending = <<>>
    /\ state_file = "" /\ oset = 0 /\ token = 0
    /\ fetch_log = <<>> /\ fetched = <<>>

\* cmd_embed is not run.
NoEmbed ==
    /\ em_pc = "idle"
    /\ papers = <<>> /\ emb_table = <<>>
    /\ missing = <<>> /\ texts = <<>> /\ embs = <<>>

\* The first call of export_json_graph in the process.
FirstRun == run = 1 /\ prev_file = <<>> /\ prev_mst = <<>> /\ memo = <<>>

\* What the later stages have not set yet.
NoLayoutYet ==
    /\ method_req = "none" /\ method_used = "none"
    /\ coords_arr = NoArray
    /\ norm = <<>> /\ placed = <<>>
    /\ xs = <<>> /\ ys = <<>>
    /\ layout_method_used = "none"

NoEdgesYet ==
    /\ neigh_pairs = [i \in Rows |-> <<>>]
    /\ mst_edges = <<>>
    /\ seen = {}
    /\ edge_list = <<>>

Init ==
    /\ pc = "neighbors" /\ err = "none"
    /\ N \in 1 .. MaxN
    /\ cluster_ids \in { f \in [Rows -> ClusterIds] : SortedByCid(f, N) }
    /\ X \in [Rows -> Vecs]
    /\ db_cids = cluster_ids /\ db_vecs = X
    /\ top_k \in 0 .. MaxK
    /\ min_sim \in MinSims
    /\ same_cluster_only \in BOOLEAN
    /\ add_cluster_mst \in BOOLEAN
    /\ include_coords = TRUE /\ coords_method = "fr" /\ compact = TRUE
    /\ NoEdgesYet
    /\ NoLayoutYet
    /\ out_file = <<>>
    /\ FirstRun
    /\ NoHarvest /\ NoEmbed

Next == Neighbors \/ Mst \/ MergeNeighbors \/ MergeMst

Spec == Init /\ [][Next]_vars

----------------------------------------------------------------------------
\* The spanning-tree step on its own, on clusters of up to MaxM rows.

InitMst ==
    /\ pc = "mst" /\ err = "none"
    /\ N \in 1 .. MaxM
    /\ cluster_ids \in { f \in [Rows -> ClusterIds] : SortedByCid(f, N) }
    /\ X \in [Rows -> Vecs]
    /\ db_cids = cluster_ids /\ db_vecs = X
    /\ top_k = 0
    /\ min_sim \in MinSims
    /\ same_cluster_only = FALSE
    /\ add_cluster_mst \in BOOLEAN
    /\ include_coords = TRUE /\ coords_method = "fr" /\ compact = TRUE
    /\ NoEdgesYet
    /\ NoLayoutYet
    /\ out_file = <<>>
    /\ FirstRun
    /\ NoHarvest /\ NoEmbed

SpecMst == InitMst /\ [][Mst]_vars

----------------------------------------------------------------------------
\* The whole export, from the database to the written file.

\* the embedding stored for a row
VecSeq == << <<3, 0, 0>>, <<2, 2, 1>>, <<0, 0, 3>> >>
RowVec(r) == VecSeq[(r % 3) + 1]

InitExport ==
    /\ pc = "load" /\ err = "none"
    /\ \E n \in 0 .. MaxN :
           db_cids \in { f \in [0 .. (n - 1) -> ClusterIds] : SortedByCid(f, n) }
    /\ db_vecs \in { [r \in S |-> RowVec(r)] : S \in SUBSET DOMAIN db_cids }
    /\ N = 0 /\ cluster_ids = <<>> /\ X = <<>>
    /\ top_k = MaxK
    /\ min_sim \in MinSims
    /\ same_cluster_only = FALSE
    /\ add_cluster_mst = TRUE
    /\ include_coords \in BOOLEAN
    /\ coords_method \in Methods
    /\ compact \in BOOLEAN
    /\ NoEdgesYet
    /\ NoLayoutYet
    /\ out_file = <<>>
    /\ FirstRun
    /\ NoHarvest /\ NoEmbed

NextExport ==
    \/ Load \/ Neighbors \/ Mst \/ MergeNeighbors \/ MergeMst
    \/ CoordsSkip \/ CoordsBegin \/ TryFa2 \/ TryFr \/ TryUmap \/ TryPca
    \/ Normalize \/ Declutter \/ Canvas \/ Write

SpecExport == InitExport /\ [][NextExport]_vars

----------------------------------------------------------------------------
\* One harvest against a server that holds up to MaxPages pages per set.

\* cmd_export_graph is not run.
NoExport ==
    /\ pc = "idle" /\ err = "none"
    /\ db_cids = <<>> /\ db_vecs = <<>>
    /\ N = 0 /\ cluster_ids = <<>> /\ X = <<>>
    /\ top_k = 0 /\ min_sim = 0
    /\ same_cluster_only = FALSE /\ add_cluster_mst = FALSE
    /\ include_coords = FALSE /\ coords_method = "none" /\ compact = TRUE
    /\ NoEdgesYet
    /\ NoLayoutYet
    /\ out_file = <<>>
    /\ FirstRun

InitHarvest ==
    /\ hv_pc = "begin" /\ hv_err = "none"
    /\ oai_server \in [1 .. Len(OAI_SETS) -> 1 .. MaxPages]
    /\ papers_raw \in { <<>>, RecId(1, 1) :> "old" }
    /\ pending = <<>>
    /\ state_file = "last"
    /\ oset = 0 /\ token = 0
    /\ fetch_log = <<>> /\ fetched = <<>>
    /\ NoExport /\ NoEmbed

NextHarvest ==
    HarvestBegin \/ Request \/ Page \/ Commit \/ Rollback \/ WriteState

SpecHarvest == InitHarvest /\ [][NextHarvest]_vars

----------------------------------------------------------------------------
\* One embedding stage over up to MaxPapers papers, some with an embedding.

InitEmbed ==
    /\ em_pc = "start"
    /\ \E n \in 0 .. MaxPapers : papers \in [1 .. n -> Texts]
    /\ \E S \in SUBSET DOMAIN papers :
           emb_table = [id \in S |-> encode(papers[id])]
    /\ missing = <<>> /\ texts = <<>> /\ embs = <<>>
    /\ NoExport /\ NoHarvest

NextEmbed == EmbedStart \/ EmbedQuery \/ EmbedEncode \/ EmbedStore

SpecEmbed == InitEmbed /\ [][NextEmbed]_vars

----------------------------------------------------------------------------
\* Two exports in a row of one database of up to MaxR rows, under one
\* configuration.

Strategies == {"fa2", "fr", "umap", "pca", "none"}

InitTwice ==
    /\ pc = "load" /\ err = "none"
    /\ \E n \in 1 .. MaxR :
           db_cids \in { f \in [0 .. (n - 1) -> ClusterIds] : SortedByCid(f, n) }
    /\ db_vecs = [r \in DOMAIN db_cids |-> RowVec(r)]
    /\ N = 0 /\ cluster_ids = <<>> /\ X = <<>>
    /\ top_k = MaxK
    /\ min_sim \in MinSims
    /\ same_cluster_only = FALSE
    /\ add_cluster_mst = TRUE
    /\ include_coords = TRUE
    /\ coords_method \in Strategies
    /\ compact \in BOOLEAN
    /\ NoEdgesYet
    /\ NoLayoutYet
    /\ out_file = <<>>
    /\ FirstRun
    /\ NoHarvest /\ NoEmbed

NextTwice ==
    \/ Load \/ Neighbors \/ Mst \/ MergeNeighbors \/ MergeMst
    \/ CoordsSkip \/ CoordsBegin \/ TryFa2 \/ TryFr \/ TryUmap \/ TryPca
    \/ Normalize \/ Declutter \/ Canvas \/ Write \/ Rerun

SpecTwice == InitTwice /\ [][NextTwice]_vars

----------------------------------------------------------------------------
\* The edge pipeline run twice over the same rows, the second time with
\* same_cluster_only the other way round.

\* export_json_graph is called again with same_cluster_only negated: the
\* arguments of the library calls are no longer those of the first call.
RerunOtherMode ==
    /\ pc = "coords" /\ run = 1
    /\ run' = run + 1
    /\ prev_mst' = mst_edges
    /\ same_cluster_only' = ~same_cluster_only
    /\ memo' = <<>>
    /\ pc' = "neighbors"
    /\ neigh_pairs' = [i \in Rows |-> <<>>]
    /\ mst_edges' = <<>>
    /\ seen' = {} /\ edge_list' = <<>>
    /\ UNCHANGED <<harvest, embed, err, db, loaded, top_k, min_sim, add_cluster_mst,
                   include_coords, coords_method, compact, layoutvars,
                   out_file, prev_file>>

NextBothModes == Neighbors \/ Mst \/ MergeNeighbors \/ MergeMst \/ RerunOtherMode

SpecBothModes == Init /\ [][NextBothModes]_vars

----------------------------------------------------------------------------
\* The edge pipeline on two clusters of three rows each whose cross-cluster
\* similarities are all below min_sim, neighbors taken over all rows.

InitTwoClusters ==
    /\ pc = "neighbors" /\ err = "none"
    /\ N = 6
    /\ cluster_ids = [r \in Rows |-> IF r < 3 THEN 0 ELSE 1]
    /\ min_sim \in MinSims
    /\ X \in { f \in [Rows -> Vecs] :
                 \A i, j \in Rows :
                     cluster_ids[i] # cluster_ids[j] => Dot(f[i], f[j]) < min_sim }
    /\ db_cids = cluster_ids /\ db_vecs = X
    /\ top_k \in 1 .. MaxK
    /\ same_cluster_only = FALSE
    /\ add_cluster_mst = TRUE
    /\ include_coords = TRUE /\ coords_method = "fr" /\ compact = TRUE
    /\ NoEdgesYet
    /\ NoLayoutYet
    /\ out_file = <<>>
    /\ FirstRun
    /\ NoHarvest /\ NoEmbed

SpecTwoClusters == InitTwoClusters /\ [][Next]_vars

----------------------------------------------------------------------------
\* The normalization and the declutter pass on their own.

RawFine == { 0, 1, 2, 250 } \X { 0, 1, 250 }

InitSpread ==
    /\ pc = "normalize" /\ err = "none"
    /\ N \in 2 .. MaxPts
    /\ cluster_ids = [r \in Rows |-> 0]
    /\ X = [r \in Rows |-> RowVec(0)]
    /\ db_cids = cluster_ids /\ db_vecs = X
    /\ top_k = 0
    /\ min_sim \in MinSims
    /\ same_cluster_only = FALSE
    /\ add_cluster_mst = FALSE
    /\ include_coords = TRUE
    /\ coords_method \in {"fa2", "fr", "umap", "pca"}
    /\ compact = TRUE
    /\ NoEdgesYet
    /\ method_req = coords_method /\ method_used = coords_method
    /\ \E pts \in [Rows -> RawFine] : coords_arr = Returned(method_used, pts)
    /\ norm = <<>> /\ placed = <<>>
    /\ xs = <<>> /\ ys = <<>>
    /\ layout_method_used = "none"
    /\ out_file = <<>>
    /\ FirstRun
    /\ NoHarvest /\ NoEmbed

NextSpread == Normalize \/ Declutter \/ Canvas

SpecSpread == InitSpread /\ [][NextSpread]_vars

----------------------------------------------------------------------------
\* Properties of the edge pipeline

Members(c) == { r \in Rows : cluster_ids[r] = c }
UsedCids == { cluster_ids[r] : r \in Rows }

\* C1: with add_cluster_mst set, the members of every cluster lie in one
\* connected component of the final edge list, whatever min_sim and the
\* similarities are.
C1_ClustersConnected ==
    (pc = "coords" /\ add_cluster_mst) =>
        \A c \in UsedCids : Connected(Members(c), PairsOf(edge_list))

\* the spanning-tree edges that touch cluster c
TreeOf(c) ==
    SelectSeq(mst_edges, LAMBDA e : e[1] \in Members(c) \/ e[2] \in Members(c))

Without(t, p) == SubSeq(t, 1, p - 1) \o SubSeq(t, p + 1, Len(t))

IsTreeOver(nodes, t) ==
    /\ Len(t) = Cardinality(nodes) - 1
    /\ \A p \in 1 .. Len(t) : t[p][1] \in nodes /\ t[p][2] \in nodes
    /\ Connected(nodes, PairsOf(t))
    /\ \A p \in 1 .. Len(t) : ~Connected(nodes, PairsOf(Without(t, p)))

\* C2: for a cluster of M >= 2 rows _cluster_mst gives exactly M-1 edges, all
\* between rows of the cluster, that alone connect the M rows without a
\* cycle; for a cluster of at most one row it gives no edge.
C2_SpanningTree ==
    (pc = "dedup" /\ add_cluster_mst) =>
        \A c \in UsedCids :
            IF Cardinality(Members(c)) >= 2
            THEN IsTreeOver(Members(c), TreeOf(c))
            ELSE TreeOf(c) = <<>>

C2_Witness ==
    /\ pc = "dedup" /\ add_cluster_mst
    /\ \E c \in UsedCids : Cardinality(Members(c)) >= 3 /\ Len(TreeOf(c)) >= 2
    /\ \E c \in UsedCids : Cardinality(Members(c)) = 1

\* C3: no neighbor list holds its own row, in either mode.
C3_NoSelfPair ==
    \A i \in Rows : \A p \in 1 .. Len(neigh_pairs[i]) : neigh_pairs[i][p][1] # i

C3_Witness ==
    /\ pc = "mst" /\ same_cluster_only /\ N >= 2
    /\ \E i \in Rows : /\ top_k >= Cardinality(Members(cluster_ids[i]))
                        /\ neigh_pairs[i] # <<>>
    /\ \E i \in Rows : Cardinality(Members(cluster_ids[i])) = 1

\* the rows a neighbor of row i is chosen among
CandidatesOf(i) ==
    IF same_cluster_only THEN Members(cluster_ids[i]) \ {i} ELSE Rows \ {i}

AboveFloor(i) == { j \in CandidatesOf(i) : Sim(i, j) >= min_sim }

\* C4: every neighbor list has at most top_k entries, every entry has
\* similarity >= min_sim, and a row with fewer than top_k candidates at or
\* above the floor gets exactly that many entries (no padding).
C4_AtMostKAboveFloor ==
    pc # "neighbors" =>
        \A i \in Rows :
            LET lst == neigh_pairs[i]
                n   == Cardinality(AboveFloor(i))
            IN  /\ Len(lst) <= top_k
                /\ \A p \in 1 .. Len(lst) : lst[p][2] >= min_sim
                /\ Len(lst) = IF top_k < n THEN top_k ELSE n

C4_Witness ==
    /\ pc = "mst"
    /\ \E i \in Rows : /\ Cardinality(CandidatesOf(i)) >= top_k
                        /\ 0 < Len(neigh_pairs[i])
                        /\ Len(neigh_pairs[i]) < top_k

RECURSIVE NeighCount(_)
NeighCount(i) == IF i >= N THEN 0 ELSE Len(neigh_pairs[i]) + NeighCount(i + 1)

\* C5: the merged edge list holds no unordered pair twice, every entry is
\* stored with a < b, and it is no longer than the neighbor entries plus the
\* spanning-tree edges.
C5_Dedup ==
    pc \in {"dedup_mst", "coords"} =>
        /\ \A p, q \in 1 .. Len(edge_list) :
               p # q => {edge_list[p][1], edge_list[p][2]}
                            # {edge_list[q][1], edge_list[q][2]}
        /\ \A p \in 1 .. Len(edge_list) : edge_list[p][1] < edge_list[p][2]
        /\ Len(edge_list) <= NeighCount(0) + Len(mst_edges)

C5_Witness ==
    /\ pc = "coords"
    /\ NeighCount(0) > 0 /\ mst_edges # <<>>
    /\ Len(edge_list) >= 2
    /\ Len(edge_list) < NeighCount(0) + Len(mst_edges)

\* the neighbor entries, as <<row, position>>
NeighEntries == UNION { {i} \X (1 .. Len(neigh_pairs[i])) : i \in Rows }
PairOfEntry(e) == {e[1], neigh_pairs[e[1]][e[2]][1]}
EntryBefore(e, f) == e[1] < f[1] \/ (e[1] = f[1] /\ e[2] < f[2])
NeighPairs == { PairOfEntry(e) : e \in NeighEntries }
FirstProposer(pair) ==
    CHOOSE e \in NeighEntries :
        /\ PairOfEntry(e) = pair
        /\ \A f \in NeighEntries : PairOfEntry(f) = pair => (f = e \/ EntryBefore(e, f))
PairAt(k) == {edge_list[k][1], edge_list[k][2]}

\* C6: the edge list starts with one entry per pair of the neighbor lists, in
\* the order (row ascending, then list order) in which the pairs are first
\* proposed and with the weight of that first proposal; the entries after
\* them are spanning-tree edges whose pair no neighbor list holds.
C6_FirstSeenWins ==
    pc = "coords" =>
        LET nn == Cardinality(NeighPairs)
        IN  /\ Len(edge_list) >= nn
            /\ \A k \in 1 .. nn :
                   /\ PairAt(k) \in NeighPairs
                   /\ edge_list[k][3] =
                        LET e == FirstProposer(PairAt(k))
                        IN  neigh_pairs[e[1]][e[2]][2]
            /\ \A k1, k2 \in 1 .. nn :
                   k1 < k2 => EntryBefore(FirstProposer(PairAt(k1)),
                                          FirstProposer(PairAt(k2)))
            /\ \A k \in (nn + 1) .. Len(edge_list) :
                   /\ PairAt(k) \notin NeighPairs
                   /\ \E q \in 1 .. Len(mst_edges) :
                          /\ {mst_edges[q][1], mst_edges[q][2]} = PairAt(k)
                          /\ mst_edges[q][3] = edge_list[k][3]

C6_Witness ==
    /\ pc = "coords"
    /\ \E q \in 1 .. Len(mst_edges) :
           /\ 2 * mst_edges[q][3] >= min_sim
           /\ {mst_edges[q][1], mst_edges[q][2]} \in NeighPairs
    /\ \E k \in 1 .. Len(edge_list) : PairAt(k) \notin NeighPairs
    /\ \E e, f \in NeighEntries : e # f /\ PairOfEntry(e) = PairOfEntry(f)

----------------------------------------------------------------------------
\* Properties of the layout stage and of the write

LayoutErrors == {"networkx", "spring_layout", "pca"}

\* C7: for N >= 2 and a requested strategy other than none, a back-end that
\* throws or is unavailable never fails the export: the export falls through
\* and completes with coordinates.
C7_FallThrough ==
    /\ pc = "error" => err \notin LayoutErrors
    /\ (pc = "done" /\ WantsCoords
            /\ Lower(coords_method) \in {"fa2", "fr", "umap", "pca"})
          => out_file[1].meta.coords.included

\* C8: in a completed export meta.coords.method names the back-end whose
\* array became the coordinates (none when no array was produced), also
\* after a fallback.
C8_MethodIsProducer ==
    pc = "done" =>
        /\ out_file[1].meta.coords.method = coords_arr.src
        /\ out_file[1].meta.coords.included <=> coords_arr # NoArray

C8_Witness ==
    /\ pc = "done"
    /\ Lower(coords_method) = "fa2"
    /\ out_file[1].meta.coords.method = "fr"
    /\ out_file[1].meta.coords.included

Abs(v) == IF v < 0 THEN 0 - v ELSE v

\* the distance of p and q is at least r
AtLeastApart(p, q, r) ==
    \/ Abs(p[1] - q[1]) >= r
    \/ Abs(p[2] - q[2]) >= r
    \/ (p[1] - q[1]) * (p[1] - q[1]) + (p[2] - q[2]) * (p[2] - q[2]) >= r * r

\* the tolerance of C9: one percent of r_min
Eps == RMin \div 100

\* C9: after _spread every pair of points that was closer than r_min is at
\* distance at least r_min - eps.
C9_SeparatedAfterSpread ==
    (pc = "canvas" /\ method_used \in {"fa2", "fr"}) =>
        \A i, j \in Rows :
            (i < j /\ ~AtLeastApart(norm[i], norm[j], RMin))
                => AtLeastApart(placed[i], placed[j], RMin - Eps)

\* C10: when the query returns no rows or a row has no embedding the export
\* ends in an error with the output file untouched; the file is written only
\* by the last step of a completed export.
C10_NoPartialOutput ==
    /\ (pc # "load" /\ (DbRows = {} \/ Missing # {}))
          => (pc = "error" /\ out_file = <<>>)
    /\ pc = "error" => out_file = <<>>
    /\ out_file # <<>> => pc = "done"

C10_Witness ==
    /\ pc = "error" /\ err = "missing embeddings"
    /\ DOMAIN db_vecs # {} /\ Missing # {}
    /\ out_file = <<>>

----------------------------------------------------------------------------
\* Properties of the neighbor lists

C18_WithinCluster ==
    same_cluster_only =>
        /\ \A i \in DOMAIN neigh_pairs : \A p \in 1 .. Len(neigh_pairs[i]) :
               cluster_ids[neigh_pairs[i][p][1]] = cluster_ids[i]
        /\ \A k \in 1 .. Len(edge_list) :
               cluster_ids[edge_list[k][1]] = cluster_ids[edge_list[k][2]]

\* the final edge list has edges, and two rows of different clusters are
\* similar enough to be neighbors had all rows been candidates
C18_Witness ==
    /\ pc = "coords" /\ same_cluster_only /\ add_cluster_mst /\ top_k > 0
    /\ edge_list # <<>>
    /\ \E i, j \in Rows : /\ cluster_ids[i] # cluster_ids[j]
                           /\ Sim(i, j) >= min_sim

\* the final edges no neighbor list proposes
MstOnly == { k \in 1 .. Len(edge_list) : PairAt(k) \notin NeighPairs }

\* C19: a spanning-tree edge enters the final edge list only if its
\* similarity is at least min_sim / 2: every final edge that is in no
\* neighbor list has similarity >= min_sim / 2, and every final edge has
\* similarity >= min(min_sim, min_sim / 2).
C19_HalfFloor ==
    pc = "coords" =>
        /\ \A k \in MstOnly : 2 * edge_list[k][3] >= min_sim
        /\ \A k \in 1 .. Len(edge_list) :
               \/ edge_list[k][3] >= min_sim
               \/ 2 * edge_list[k][3] >= min_sim

\* one spanning-tree edge was dropped, another kept below min_sim
C19_Witness ==
    /\ pc = "coords"
    /\ \E p \in 1 .. Len(mst_edges) : 2 * mst_edges[p][3] < min_sim
    /\ \E k \in MstOnly : edge_list[k][3] < min_sim

\* C20: the similarities of row i's neighbor list are the top_k largest of
\* its candidates (the rows j # i, of its cluster when same_cluster_only),
\* cut at min_sim: each entry is a candidate with its similarity, no
\* candidate is listed twice, and no candidate left out has a similarity
\* strictly above that of a listed one.
C20_TopK ==
    pc # "neighbors" =>
        \A i \in Rows :
            LET listed == { neigh_pairs[i][p][1] : p \in 1 .. Len(neigh_pairs[i]) }
            IN  /\ listed \subseteq CandidatesOf(i)
                /\ Cardinality(listed) = Len(neigh_pairs[i])
                /\ \A p \in 1 .. Len(neigh_pairs[i]) :
                       neigh_pairs[i][p][2] = Sim(i, neigh_pairs[i][p][1])
                /\ \A j \in CandidatesOf(i) \ listed : \A l \in listed :
                       Sim(i, j) <= Sim(i, l)

\* a candidate above the floor is left out, below a listed one
C20_Witness ==
    /\ pc = "mst"
    /\ \E i \in Rows : \E j \in CandidatesOf(i) :
           /\ Len(neigh_pairs[i]) = top_k
           /\ \A p \in 1 .. Len(neigh_pairs[i]) :
                  /\ neigh_pairs[i][p][1] # j
                  /\ Sim(i, j) < neigh_pairs[i][p][2]
           /\ Sim(i, j) >= min_sim

\* the batch sizes tried: a row at a time up to all rows at once, and BATCH
BatchSizes == (1 .. (N + 1)) \cup {1024, 4096}

\* C25: the neighbor lists of the global branch do not depend on the batch
\* size: in batches of any size the rows 0 .. N-1 are each processed once,
\* and the lists the run has produced are, for the order in which it broke
\* its ties, the lists that batches of every size produce and the lists of
\* the rows computed against all rows at once.
C25_BatchIndependent ==
    (pc = "mst" /\ ~same_cluster_only /\ N > 1) =>
        /\ \A batch \in BatchSizes :
               [p \in 1 .. Len(Visits(batch)) |-> RowAt(Visits(batch)[p])]
                   = SeqOfSet(Rows)
        /\ \E pref \in Permutations(Rows) :
               /\ neigh_pairs = [i \in Rows |-> NeighRowGlobal(i, pref)]
               /\ \A batch \in BatchSizes :
                      NeighGlobalBatched(batch, pref) = neigh_pairs

\* three rows that batches of two split into two batches, each row with a
\* neighbor
C25_Witness ==
    /\ pc = "mst" /\ ~same_cluster_only /\ N = 3
    /\ Len(BatchStarts(2)) = 2
    /\ \A i \in Rows : neigh_pairs[i] # <<>>
    /\ \E pref \in Permutations(Rows) : neigh_pairs = NeighGlobalBatched(2, pref)

----------------------------------------------------------------------------
\* Properties of two exports in a row

\* C11: a second export of the same input under the same configuration and
\* seeds writes the payload the first one wrote (the same nodes with the same
\* coordinates, the same links, the same meta), whichever layout strategy
\* was asked for.
C11_Reproducible ==
    (run = 2 /\ pc = "done") => out_file = prev_file

----------------------------------------------------------------------------
\* Properties of the written payload

NodeIds(pl) == { pl.nodes[p].id : p \in 1 .. Len(pl.nodes) }
LinkEnds(pl, q) ==
    IF pl.meta.compact THEN { pl.links[q].s, pl.links[q].t }
                       ELSE { pl.links[q].source, pl.links[q].target }

\* C12 (as stated): in every written payload, compact or verbose, the id of
\* the p-th node is its 0-based row index and both endpoints of every link
\* are row indices of nodes of the payload.
C12_RowIndexIds ==
    pc = "done" =>
        LET pl == out_file[1]
        IN  /\ \A p \in 1 .. Len(pl.nodes) : pl.nodes[p].id = p - 1
            /\ \A q \in 1 .. Len(pl.links) :
                   LinkEnds(pl, q) \subseteq 0 .. (Len(pl.nodes) - 1)

\* C12 (amended): in a compact payload the id of the p-th node is its row
\* index (its external id is carried as aid) and the links name their
\* endpoints by row index; in a verbose payload the id of the p-th node is
\* the external id of row p and the links name their endpoints by external
\* id.  In both, every link endpoint is the id of a node of the payload.
C12_IdsJoin ==
    pc = "done" =>
        LET pl == out_file[1]
        IN  /\ \A p \in 1 .. Len(pl.nodes) :
                   IF pl.meta.compact
                   THEN pl.nodes[p].id = p - 1 /\ pl.nodes[p].aid = Aid(p - 1)
                   ELSE pl.nodes[p].id = Aid(p - 1)
            /\ \A q \in 1 .. Len(pl.links) :
                   /\ LinkEnds(pl, q) \subseteq NodeIds(pl)
                   /\ Cardinality(LinkEnds(pl, q)) = 2

C12_Witness ==
    /\ pc = "done"
    /\ ~out_file[1].meta.compact
    /\ Len(out_file[1].nodes) >= 2
    /\ Len(out_file[1].links) >= 1

HasXY(nd) == "x" \in DOMAIN nd /\ "y" \in DOMAIN nd
NoXY(nd) == "x" \notin DOMAIN nd /\ "y" \notin DOMAIN nd

\* one row, and a layout strategy asked for
SingleItem ==
    /\ pc = "done" /\ N = 1
    /\ include_coords /\ Lower(coords_method) \in {"fa2", "fr", "umap", "pca"}

C16_CoordsAllOrNothing ==
    pc = "done" =>
        LET pl == out_file[1]
            all  == /\ \A p \in 1 .. Len(pl.nodes) : HasXY(pl.nodes[p])
                    /\ pl.meta.coords.included
                    /\ pl.meta.coords.method # "none"
            nothing == /\ \A p \in 1 .. Len(pl.nodes) : NoXY(pl.nodes[p])
                       /\ ~pl.meta.coords.included
                       /\ pl.meta.coords.method = "none"
        IN  /\ all \/ nothing
            /\ (~include_coords \/ Lower(coords_method) = "none") => nothing

C16_Witness ==
    /\ pc = "done"
    /\ ~compact /\ Len(out_file[1].nodes) >= 2
    /\ out_file[1].meta.coords.included
    /\ \A p \in 1 .. Len(out_file[1].nodes) : HasXY(out_file[1].nodes[p])

RECURSIVE SizeSum(_, _)
SizeSum(cl, keys) ==
    IF keys = {} THEN 0
    ELSE LET c == CHOOSE x \in keys : TRUE
         IN  cl[c].size + SizeSum(cl, keys \ {c})

\* C26: in every written payload the keys of clusters are exactly the
\* cluster ids of the nodes, the size of each cluster is the number of
\* nodes with that cluster id, and the sizes add up to the number of nodes.
C26_ClustersMatchNodes ==
    pc = "done" =>
        LET pl == out_file[1]
            at(c) == { p \in 1 .. Len(pl.nodes) : pl.nodes[p].cid = c }
        IN  /\ DOMAIN pl.clusters = { pl.nodes[p].cid : p \in 1 .. Len(pl.nodes) }
            /\ \A c \in DOMAIN pl.clusters : pl.clusters[c].size = Cardinality(at(c))
            /\ SizeSum(pl.clusters, DOMAIN pl.clusters) = Len(pl.nodes)

\* three nodes in two clusters of different sizes
C26_Witness ==
    /\ pc = "done"
    /\ Len(out_file[1].nodes) = 3
    /\ DOMAIN out_file[1].clusters = {0, 1}
    /\ out_file[1].clusters[0].size # out_file[1].clusters[1].size

----------------------------------------------------------------------------
\* Properties of the canvas mapping

\* C15: whatever the strategy, and after the declutter pass too, every point
\* handed to the canvas mapping lies in [0, 1] on both axes, so every node's
\* x lies in [canvas_pad, canvas_w - canvas_pad] and its y in
\* [canvas_pad, canvas_h - canvas_pad].
C15_InsidePaddedCanvas ==
    /\ pc = "canvas" =>
           \A r \in Rows : /\ placed[r][1] \in 0 .. Scale
                            /\ placed[r][2] \in 0 .. Scale
    /\ xs # <<>> =>
           \A p \in 1 .. N : /\ xs[p] \in canvas_pad .. (canvas_w - canvas_pad)
                              /\ ys[p] \in canvas_pad .. (canvas_h - canvas_pad)

----------------------------------------------------------------------------
\* Properties of the two-cluster scenario

\* the connected components of the rows under the final edge list
Components == { Component({r}, PairsOf(edge_list)) : r \in Rows }

\* C14: with two clusters of three items, no cross-cluster similarity at or
\* above min_sim and neighbors taken over all rows, no neighbor list holds a
\* cross-cluster pair, the spanning-tree step yields exactly 4 edges (2 per
\* cluster) and the final edge list has exactly 2 connected components.
C14_TwoComponents ==
    pc = "coords" =>
        /\ \A i \in Rows : \A p \in 1 .. Len(neigh_pairs[i]) :
               cluster_ids[neigh_pairs[i][p][1]] = cluster_ids[i]
        /\ Len(mst_edges) = 4
        /\ Cardinality(Components) = 2

----------------------------------------------------------------------------
\* Properties of the spanning trees

\* the spanning trees over a set of rows, as sets of pairs
SpanningTrees(nodes) ==
    { T \in SUBSET { pr \in nodes \X nodes : pr[1] < pr[2] } :
        /\ Cardinality(T) = Cardinality(nodes) - 1
        /\ Connected(nodes, T) }

RECURSIVE SimSum(_)
SimSum(T) ==
    IF T = {} THEN 0
    ELSE LET pr == CHOOSE x \in T : TRUE
         IN  Sim(pr[1], pr[2]) + SimSum(T \ {pr})

\* C21: the tree _cluster_mst returns for a cluster is a minimum spanning
\* tree under the distance 1 - similarity, that is, no spanning tree over the
\* cluster's rows has a larger total similarity; and every edge it returns
\* carries the similarity of its two endpoints, not the distance.
C21_MinimumSpanningTree ==
    (pc = "dedup" /\ add_cluster_mst) =>
        \A c \in UsedCids :
            LET t == TreeOf(c)
            IN  /\ \A p \in 1 .. Len(t) : t[p][3] = Sim(t[p][1], t[p][2])
                /\ \A T \in SpanningTrees(Members(c)) :
                       SimSum(PairsOf(t)) >= SimSum(T)

\* a cluster of three or more rows over which some spanning tree is worse
\* than the returned one
C21_Witness ==
    /\ pc = "dedup" /\ add_cluster_mst
    /\ \E c \in UsedCids :
           /\ Cardinality(Members(c)) >= 3
           /\ \E T \in SpanningTrees(Members(c)) :
                  SimSum(T) < SimSum(PairsOf(TreeOf(c)))

\* C22: the spanning-tree edges do not depend on same_cluster_only: run
\* over the same rows with the flag the other way round, the spanning-tree
\* step yields the same mst_edges; and in either mode every spanning-tree
\* edge joins two rows of one cluster.
C22_MstIgnoresFlag ==
    /\ \A p \in 1 .. Len(mst_edges) :
           cluster_ids[mst_edges[p][1]] = cluster_ids[mst_edges[p][2]]
    /\ (run = 2 /\ pc \in {"dedup", "dedup_mst", "coords"}) =>
           mst_edges = prev_mst

\* both modes gave spanning-tree edges over two clusters, and neighbor
\* lists that differ from one mode to the other
C22_Witness ==
    /\ run = 2 /\ pc = "coords" /\ add_cluster_mst
    /\ mst_edges # <<>>
    /\ Cardinality(UsedCids) = 2
    /\ \E i \in Rows : \E p \in 1 .. Len(neigh_pairs[i]) :
           cluster_ids[neigh_pairs[i][p][1]] # cluster_ids[i]

----------------------------------------------------------------------------
\* Properties of the declutter pass

\* C23: the declutter pass runs exactly when the strategy that produced the
\* coordinates is fa2 or fr: coordinates from umap or pca (pca after a
\* failed umap too) reach the canvas mapping as normalized, and coordinates
\* from fr after a failed fa2 are decluttered.
C23_DeclutterForceOnly ==
    pc = "canvas" =>
        /\ method_used \in {"umap", "pca"} => placed = norm
        /\ method_used \in {"fa2", "fr"} => placed = _spread(norm)

\* fr after a failed fa2, and the pass moved a point
C23_Witness ==
    /\ pc = "canvas"
    /\ Lower(coords_method) = "fa2" /\ method_used = "fr"
    /\ placed # norm

RECURSIVE SumAxis(_, _, _)
SumAxis(P, ax, rows) ==
    IF rows = {} THEN 0
    ELSE LET r == CHOOSE x \in rows : TRUE
         IN  P[r][ax] + SumAxis(P, ax, rows \ {r})

\* the positions at the start of each "for ii in idxs" round of the pass,
\* and at its end
RECURSIVE VisitStates(_, _, _)
VisitStates(P, P0, order) ==
    IF order = <<>> THEN {P}
    ELSE LET ii == Head(order)
         IN  {P} \cup VisitStates(
                 PushAll(P, ii, P[ii][1], P[ii][2], SeqOfSet(Hot(P0, ii))),
                 P0, Tail(order))

\* point r stays r_min or more away from every other point
KeepsClear(r) ==
    \A C \in VisitStates(norm, norm, VisitOrder(norm)) :
        \A q \in DOMAIN C \ {r} : AtLeastApart(C[r], C[q], RMin)

Decluttered == pc = "canvas" /\ method_used \in {"fa2", "fr"}

\* C24: every push of _spread moves the two points of the pair by equal and
\* opposite displacements, so the sum of the points' coordinates is the same
\* after the pass as before on each axis; and a point that stays r_min or
\* more away from every other point throughout the pass is not moved.
C24_SymmetricPush ==
    Decluttered =>
        /\ SumAxis(placed, 1, DOMAIN placed) = SumAxis(norm, 1, DOMAIN norm)
        /\ SumAxis(placed, 2, DOMAIN placed) = SumAxis(norm, 2, DOMAIN norm)
        /\ \A r \in DOMAIN norm : KeepsClear(r) => placed[r] = norm[r]

\* two points were pushed apart, a third one stayed clear and in place
C24_Witness ==
    /\ Decluttered
    /\ \E r, q \in DOMAIN norm : q # r /\ placed[r] # norm[r] /\ placed[q] # norm[q]
    /\ \E r \in DOMAIN norm : KeepsClear(r) /\ placed[r] = norm[r]

----------------------------------------------------------------------------
\* Properties of the harvest

NewRows(tbl) == { k \in DOMAIN tbl : tbl[k] = "new" }

\* C27: the harvest is all or nothing.  If a fetch, a parse or an insert
\* fails, the transaction is rolled back: papers_raw holds no row of this
\* run and the state file keeps its content.  The state file gets
\* until_date only after the commit of a run in which nothing failed.
C27_HarvestAtomic ==
    /\ (hv_pc = "raised" /\ hv_err \in {"fetch", "parse", "insert"}) =>
           /\ NewRows(papers_raw) = {}
           /\ pending = <<>>
           /\ state_file = "last"
    /\ NewRows(papers_raw) # {} => hv_pc \in {"state", "done", "raised"}
    /\ state_file # "last" =>
           /\ state_file = "until"
           /\ hv_pc = "done" /\ hv_err = "none"
           /\ pending = <<>>

\* an insert failed after rows of this run had been written, one of them
\* over a row of an earlier run
C27_Witness ==
    /\ hv_pc = "raised" /\ hv_err = "insert"
    /\ Len(fetched) >= 3
    /\ DOMAIN papers_raw = {RecId(1, 1)}
    /\ papers_raw[RecId(1, 1)] = "old"

\* the pages of set s whose body _oai_fetch has returned
FetchedPages(s) ==
    { fetched[k][2] : k \in { j \in DOMAIN fetched : fetched[j][1] = s } }

Unsuccessful(log) == \A k \in DOMAIN log : log[k] # "ok"

\* C29: one call of _oai_fetch issues at most 5 requests, issues none after
\* the first successful response, and raises exactly when all 5 attempts
\* were unsuccessful; _oai_iter_records requests the pages of a set one
\* after the other while a resumption token is returned and stops at the
\* first page without one.
C29_FetchAndPaging ==
    /\ Len(fetch_log) <= Attempts
    /\ Unsuccessful(SubSeq(fetch_log, 1, Len(fetch_log) - 1))
    /\ hv_err = "fetch" <=>
           (Len(fetch_log) = Attempts /\ Unsuccessful(fetch_log))
    /\ \A k \in 1 .. Len(fetched) - 1 :
           fetched[k + 1] = IF fetched[k][1] = fetched[k + 1][1]
                            THEN <<fetched[k][1], fetched[k][2] + 1>>
                            ELSE <<fetched[k][1] + 1, 1>>
    /\ \A s \in DOMAIN OAI_SETS :
           /\ FetchedPages(s) \subseteq 1 .. oai_server[s]
           /\ (s < oset \/ hv_pc \in {"commit", "state", "done"}) =>
                  FetchedPages(s) = 1 .. oai_server[s]

\* C29 without the transport errors: whenever every request got a response,
\* the call raises exactly after 5 responses that were not ok.
C29_WithResponses ==
    (\A k \in DOMAIN fetch_log : fetch_log[k] # "exception") => C29_FetchAndPaging

----------------------------------------------------------------------------
\* Properties of the embedding stage

\* C28: when ensure_embeddings_for_candidates has completed, every
\* embedding in the table is the encoding of the title and summary of the
\* paper it is stored under, in whatever order the rows came.
C28_OwnEmbedding ==
    em_pc = "done" =>
        \A id \in DOMAIN emb_table : emb_table[id] = encode(papers[id])

\* C28 when the second query returns its rows in the order of missing
C28_SameOrder ==
    texts = [k \in DOMAIN missing |-> papers[missing[k]]] => C28_OwnEmbedding

====
